---- MODULE Spec2Model ----
(***************************************************************************)
(* Model of the improved data-visualisation backend (src/improved/backend) *)
(* : the command whitelist and the validators of security.py, the          *)
(* session-to-DataFrame store and the analysis operations of               *)
(* data_processor.py, and the HTTP and WebSocket handlers of main.py; and  *)
(* of the baseline TCP server (src/baseline/python_server.py).             *)
(*                                                                         *)
(* Python strings that the code inspects character by character            *)
(* (filenames) are sequences of one-character strings.  Strings that the   *)
(* code only compares or echoes (command names, parameter keys, column     *)
(* names) are TLA+ strings.  A formatted message (an f-string) is the      *)
(* sequence of its pieces, so that "the message names the command" can be  *)
(* read off the message itself.                                            *)
(***************************************************************************)
EXTENDS Integers, Sequences, FiniteSets, TLC

VARIABLES
    call,               \* SpecValidate: the validator call under test and its result
    dataframes,         \* data_processor.dataframes: session id -> DataFrame | None
    req,                \* the HTTP request being served (endpoint "none": idle)
    resp,               \* the HTTP response of that request
    calls,              \* functions the handler of that request called, in order
    active_connections, \* ConnectionManager.active_connections: session id -> socket
    ws,                 \* per WebSocket connection: handler position and locals
    inbox,              \* per WebSocket connection: messages delivered to its client
    baseline            \* baseline/python_server.py: the global df, main's position
                        \* and locals, the connection being handled

vars == <<call, dataframes, req, resp, calls, active_connections, ws, inbox, baseline>>

(***************************************************************************)
(* Bounds of the model.                                                    *)
(***************************************************************************)
MaxStem == 3        \* free characters in front of a filename's ending
MaxKeys == 2        \* keys of a parameter dict handed to validate_command

(***************************************************************************)
(* Python str helpers, on sequences of one-character strings.              *)
(***************************************************************************)
Range(s) == {s[i] : i \in 1..Len(s)}

\* needle in hay  (str.__contains__)
Contains(hay, needle) ==
    \E i \in 0..(Len(hay) - Len(needle)) :
        \A j \in 1..Len(needle) : hay[i + j] = needle[j]

\* hay.startswith(prefix)
StartsWith(hay, prefix) ==
    /\ Len(prefix) <= Len(hay)
    /\ \A j \in 1..Len(prefix) : hay[j] = prefix[j]

\* hay.endswith(suffix)
EndsWith(hay, suffix) ==
    /\ Len(suffix) <= Len(hay)
    /\ \A j \in 1..Len(suffix) : hay[Len(hay) - Len(suffix) + j] = suffix[j]

UpperToLower ==
    [c \in {"A", "C", "S", "V", "T", "X", "E", "I", "Q", "U"} |->
        CASE c = "A" -> "a" [] c = "C" -> "c" [] c = "S" -> "s"
          [] c = "V" -> "v" [] c = "T" -> "t" [] c = "X" -> "x"
          [] c = "E" -> "e" [] c = "I" -> "i" [] c = "Q" -> "q" [] c = "U" -> "u"]

\* s.lower()
Lower(s) == [i \in 1..Len(s) |-> IF s[i] \in DOMAIN UpperToLower THEN UpperToLower[s[i]] ELSE s[i]]

Whitespace == {" ", "\t", "\n", "\r"}

RECURSIVE LStrip(_)
LStrip(s) == IF s # <<>> /\ Head(s) \in Whitespace THEN LStrip(Tail(s)) ELSE s

RECURSIVE RStrip(_)
RStrip(s) ==
    IF s # <<>> /\ s[Len(s)] \in Whitespace THEN RStrip(SubSeq(s, 1, Len(s) - 1)) ELSE s

\* s.strip()
Strip(s) == RStrip(LStrip(s))

Letters ==
    {"a", "b", "c", "d", "e", "f", "h", "i", "m", "n", "o", "p", "q", "r", "s", "t",
     "u", "v", "w", "x", "A", "C", "S", "V", "T", "X", "E", "I", "Q", "U"}

\* c.isalnum()
IsAlnum(c) == c \in Letters \/ c \in {"0", "1", "2", "3", "4", "5", "6", "7", "8", "9"}

\* "".join(c for c in s if keep(c))
RECURSIVE KeepSafe(_)
KeepSafe(s) ==
    IF s = <<>> THEN <<>>
    ELSE IF IsAlnum(Head(s)) \/ Head(s) \in {".", "_", "-", " "}
         THEN <<Head(s)>> \o KeepSafe(Tail(s))
         ELSE KeepSafe(Tail(s))

(***************************************************************************)
(* security.py: the command whitelist.                                     *)
(***************************************************************************)
\* ALLOWED_COMMANDS.keys(), in the dict's insertion order
AllowedCommandNames ==
    <<"upload_dataset", "plot", "describe", "corr", "head", "tail", "info",
      "statistical_summary">>

ALLOWED_COMMANDS ==
    [c \in Range(AllowedCommandNames) |->
        CASE c = "upload_dataset" -> <<"filename">>
          [] c = "plot" -> <<"type", "x", "y", "title", "xlabel", "ylabel">>
          [] c = "head" -> <<"n">>
          [] c = "tail" -> <<"n">>
          [] OTHER -> <<>>]

ALLOWED_EXTENSIONS == {<<".", "c", "s", "v">>}

NoMsg == <<>>      \* None in the error position of a (bool, Optional[str]) result

\* validate_command(command, params): only the keys of params are read, in
\* the dict's order, so params is given as its sequence of keys.
RECURSIVE FirstBadParam(_, _)
FirstBadParam(keys, allowed_params) ==
    IF keys = <<>> THEN <<>>
    ELSE IF Head(keys) \notin Range(allowed_params) THEN <<Head(keys)>>
    ELSE FirstBadParam(Tail(keys), allowed_params)

validate_command_accept_all(command, keys) ==
    IF command \notin DOMAIN ALLOWED_COMMANDS
    THEN [ok |-> FALSE,
          error |-> <<"Command '", command, "' is not allowed. Allowed commands: ">>
                    \o AllowedCommandNames]
    ELSE [ok |-> TRUE, error |-> NoMsg]

validate_command_no_name(command, keys) ==
    IF command \notin DOMAIN ALLOWED_COMMANDS
    THEN [ok |-> FALSE,
          error |-> <<"Command is not allowed. Allowed commands: ">>
                    \o AllowedCommandNames]
    ELSE LET bad == FirstBadParam(keys, ALLOWED_COMMANDS[command]) IN
         IF bad # <<>>
         THEN [ok |-> FALSE,
               error |-> <<"Parameter '", bad[1], "' is not allowed for command '",
                           command, "'">>]
         ELSE [ok |-> TRUE, error |-> NoMsg]

validate_command(command, keys) ==
    IF command \notin DOMAIN ALLOWED_COMMANDS
    THEN [ok |-> FALSE,
          error |-> <<"Command '", command, "' is not allowed. Allowed commands: ">>
                    \o AllowedCommandNames]
    ELSE LET bad == FirstBadParam(keys, ALLOWED_COMMANDS[command]) IN
         IF bad # <<>>
         THEN [ok |-> FALSE,
               error |-> <<"Parameter '", bad[1], "' is not allowed for command '",
                           command, "'">>]
         ELSE [ok |-> TRUE, error |-> NoMsg]

(***************************************************************************)
(* security.py: sanitize_filename.  The result pair (is_valid, value) is   *)
(* the record [ok, filename, error]: value is the filename when ok and the *)
(* error message otherwise.                                                *)
(***************************************************************************)
\* The backquote character is written "backquote": it is one character of the
\* filename like the others.
dangerous_chars ==
    {"<", ">", "|", "&", ";", "backquote", "$", "(", ")", "{", "}", "[", "]"}

FileOk(filename) == [ok |-> TRUE, filename |-> filename, error |-> ""]
FileErr(msg) == [ok |-> FALSE, filename |-> <<>>, error |-> msg]

sanitize_filename_any_extension(filename) ==
    IF filename = <<>> THEN FileErr("Filename cannot be empty")
    ELSE IF \/ Contains(filename, <<".", ".">>)
            \/ Contains(filename, <<"/">>)
            \/ Contains(filename, <<"\\">>)
         THEN FileErr("Path traversal not allowed")
    ELSE IF StartsWith(filename, <<"/">>) \/ (Len(filename) > 1 /\ filename[2] = ":")
         THEN FileErr("Absolute paths not allowed")
    ELSE IF \E char \in dangerous_chars : Contains(filename, <<char>>)
         THEN FileErr("Filename contains invalid characters")
    ELSE FileOk(filename)

sanitize_filename(filename) ==
    IF filename = <<>> THEN FileErr("Filename cannot be empty")
    ELSE IF \/ Contains(filename, <<".", ".">>)
            \/ Contains(filename, <<"/">>)
            \/ Contains(filename, <<"\\">>)
         THEN FileErr("Path traversal not allowed")
    ELSE IF StartsWith(filename, <<"/">>) \/ (Len(filename) > 1 /\ filename[2] = ":")
         THEN FileErr("Absolute paths not allowed")
    ELSE IF ~ \E ext \in ALLOWED_EXTENSIONS : EndsWith(Lower(filename), ext)
         THEN FileErr("File type not allowed. Allowed extensions: .csv")
    ELSE LET sanitized == Strip(KeepSafe(filename)) IN   \* computed, never returned
         IF \E char \in dangerous_chars : Contains(filename, <<char>>)
         THEN FileErr("Filename contains invalid characters")
         ELSE FileOk(filename)

(***************************************************************************)
(* security.py: the size validators.  The (bool, Optional[str]) result is  *)
(* [ok, error].                                                            *)
(***************************************************************************)
max_file_size_mb == 100

validate_file_size(size_bytes) ==
    LET max_size == max_file_size_mb * 1024 * 1024 IN
    IF size_bytes > max_size
    THEN [ok |-> FALSE, error |-> <<"File size exceeds maximum of ", "100", "MB">>]
    ELSE [ok |-> TRUE, error |-> NoMsg]

\* validate_command_length(command), given len(command)
validate_command_length(command_len) ==
    LET max_length == 10 * 1024 IN
    IF command_len > max_length
    THEN [ok |-> FALSE, error |-> <<"Command length exceeds maximum of ", "10240", " bytes">>]
    ELSE [ok |-> TRUE, error |-> NoMsg]

(***************************************************************************)
(* Inputs of the validators.                                               *)
(***************************************************************************)
\* A command string: its text, len(command) (its characters) and the bytes of
\* its UTF-8 encoding, which is what the transport carries.  The texts of the whitelist
\* have their own lengths; the others stand for strings of the given length.
CommandLen ==
    [c \in Range(AllowedCommandNames) |->
        CASE c = "upload_dataset" -> 14 [] c = "plot" -> 4 [] c = "describe" -> 8
          [] c = "corr" -> 4 [] c = "head" -> 4 [] c = "tail" -> 4 [] c = "info" -> 4
          [] c = "statistical_summary" -> 19]

UnknownCommands ==
    {[name |-> "exec", len |-> 4, bytes |-> 4], [name |-> "Plot", len |-> 4, bytes |-> 4],
     [name |-> "long", len |-> 10 * 1024, bytes |-> 10 * 1024],
     [name |-> "toolong", len |-> 10 * 1024 + 1, bytes |-> 10 * 1024 + 1],
     \* 10240 characters, one of them of two bytes in UTF-8
     [name |-> "wide", len |-> 10 * 1024, bytes |-> 10 * 1024 + 1],
     \* 5121 characters of two bytes each
     [name |-> "widest", len |-> 5 * 1024 + 1, bytes |-> 10 * 1024 + 2]}

Commands ==
    {[name |-> c, len |-> CommandLen[c], bytes |-> CommandLen[c]] :
        c \in Range(AllowedCommandNames)}
        \cup UnknownCommands

CommandNames == {c.name : c \in Commands}

ParamKeys ==
    {"filename", "type", "x", "y", "title", "xlabel", "ylabel", "n", "format", "bogus"}

RECURSIVE SeqsUpTo(_, _)
SeqsUpTo(S, n) ==
    IF n = 0 THEN {<<>>}
    ELSE LET shorter == SeqsUpTo(S, n - 1) IN
         shorter \cup {Append(q, e) : q \in {t \in shorter : Len(t) = n - 1}, e \in S}

\* the key sequences of dicts (distinct keys) with at most MaxKeys keys
KeySeqs == {q \in SeqsUpTo(ParamKeys, MaxKeys) : Cardinality(Range(q)) = Len(q)}

StemChars == {"a", ".", "/", "\\", ":", ";", "$", " ", "#"}

Endings ==
    {<<>>,
     <<".", "c", "s", "v">>, <<".", "C", "S", "V">>, <<".", "C", "s", "v">>,
     <<".", "t", "x", "t">>, <<".", "c", "s", "v", " ">>,
     <<".", "c", "s", "v", ".", "t", "x", "t">>}

ReportCsv == <<"r", "e", "p", "o", "r", "t", ".", "c", "s", "v">>
PasswdCsv ==
    <<".", ".", "/", "e", "t", "c", "/", "p", "a", "s", "s", "w", "d", ".", "c", "s", "v">>
RmRfCsv == <<"a", ";", "r", "m", " ", "-", "r", "f", ".", "c", "s", "v">>
NotesTxt == <<"n", "o", "t", "e", "s", ".", "t", "x", "t">>

Filenames ==
    {stem \o ending : stem \in SeqsUpTo(StemChars, MaxStem), ending \in Endings}
        \cup {ReportCsv, PasswdCsv, RmRfCsv, NotesTxt}

MaxFileBytes == 100 * 1024 * 1024

Sizes == {0, 1, MaxFileBytes - 1, MaxFileBytes, MaxFileBytes + 1, 2 * MaxFileBytes}

CommandLens == {0, 4, 10 * 1024 - 1, 10 * 1024, 10 * 1024 + 1, 20 * 1024}

(***************************************************************************)
(* SpecValidate: every validator applied to every input of its input set.  *)
(***************************************************************************)
NoCall ==
    [fn |-> "none", command |-> "", keys |-> <<>>, filename |-> <<>>, size |-> 0,
     done |-> FALSE, vc |-> [ok |-> FALSE, error |-> NoMsg], sf |-> FileErr("")]

CallInputs ==
    {[NoCall EXCEPT !.fn = "validate_command", !.command = c, !.keys = k] :
        c \in CommandNames, k \in KeySeqs}
    \cup {[NoCall EXCEPT !.fn = "sanitize_filename", !.filename = f] : f \in Filenames}
    \cup {[NoCall EXCEPT !.fn = "validate_file_size", !.size = n] : n \in Sizes}
    \cup {[NoCall EXCEPT !.fn = "validate_command_length", !.size = n] : n \in CommandLens}

ValidateFrame ==
    UNCHANGED <<dataframes, req, resp, calls, active_connections, ws, inbox, baseline>>

CallValidateCommand ==
    /\ call.fn = "validate_command" /\ ~call.done
    /\ call' = [call EXCEPT !.done = TRUE, !.vc = validate_command(call.command, call.keys)]
    /\ ValidateFrame

CallSanitizeFilename ==
    /\ call.fn = "sanitize_filename" /\ ~call.done
    /\ call' = [call EXCEPT !.done = TRUE, !.sf = sanitize_filename(call.filename)]
    /\ ValidateFrame

CallValidateFileSize ==
    /\ call.fn = "validate_file_size" /\ ~call.done
    /\ call' = [call EXCEPT !.done = TRUE, !.vc = validate_file_size(call.size)]
    /\ ValidateFrame

CallValidateCommandLength ==
    /\ call.fn = "validate_command_length" /\ ~call.done
    /\ call' = [call EXCEPT !.done = TRUE, !.vc = validate_command_length(call.size)]
    /\ ValidateFrame

(***************************************************************************)
(* data_processor.py: DataFrames and the session store.  A DataFrame is    *)
(* what the code reads of it: len(df), its column names, and which columns *)
(* are numeric.  An uploaded content is its byte length and what           *)
(* pd.read_csv makes of it (a DataFrame, or an exception).                 *)
(***************************************************************************)
MaxSessions == 2    \* session ids in use

SessionIds == 1..MaxSessions

max_dataframe_rows == 1000000

None == [rows |-> -1, columns |-> <<>>, numeric |-> {}]     \* dataframes.get miss

Mixed(rows) == [rows |-> rows, columns |-> <<"a", "b">>, numeric |-> {"a"}]
Text(rows) == [rows |-> rows, columns |-> <<"b">>, numeric |-> {}]

Contents ==
    {[size |-> 0, parses |-> FALSE, df |-> None],
     [size |-> 40, parses |-> FALSE, df |-> None],
     [size |-> 40, parses |-> TRUE, df |-> Mixed(3)],
     [size |-> 40, parses |-> TRUE, df |-> Text(3)],
     [size |-> MaxFileBytes, parses |-> TRUE, df |-> Mixed(max_dataframe_rows)],
     [size |-> MaxFileBytes, parses |-> TRUE, df |-> Mixed(max_dataframe_rows + 1)],
     [size |-> MaxFileBytes + 1, parses |-> TRUE, df |-> Mixed(3)],
     [size |-> MaxFileBytes + 1, parses |-> FALSE, df |-> None]}

\* Result envelopes of the analysis operations.  kind "fault" is an exception
\* that leaves the operation uncaught, named by its Python type.
Ok(payload, count) == [kind |-> "ok", error |-> NoMsg, payload |-> payload, count |-> count]
Err(msg) == [kind |-> "error", error |-> msg, payload |-> "", count |-> 0]
Fault(type) == [kind |-> "fault", error |-> <<type>>, payload |-> "", count |-> 0]
NoResult == [kind |-> "none", error |-> NoMsg, payload |-> "", count |-> 0]

\* load_csv(file_content, filename, session_id) on the store `dfs`:
\* [dfs: the store afterwards, result, calls: library calls made].
load_csv_parse_first(dfs, file_content, session_id) ==
    IF ~file_content.parses
    THEN [dfs |-> dfs, result |-> Err(<<"read_csv failed">>), calls |-> <<"read_csv">>]
    ELSE IF file_content.size > max_file_size_mb * 1024 * 1024
    THEN [dfs |-> dfs, result |-> Err(<<"File size exceeds maximum of ", "100", "MB">>),
          calls |-> <<"read_csv">>]
    ELSE IF file_content.df.rows > max_dataframe_rows
    THEN [dfs |-> dfs,
          result |-> Err(<<"DataFrame exceeds maximum of ", "1000000", " rows">>),
          calls |-> <<"read_csv">>]
    ELSE [dfs |-> [dfs EXCEPT ![session_id] = file_content.df],
          result |-> Ok("dataset", file_content.df.rows), calls |-> <<"read_csv">>]

load_csv(dfs, file_content, session_id) ==
    IF file_content.size > max_file_size_mb * 1024 * 1024
    THEN [dfs |-> dfs, result |-> Err(<<"File size exceeds maximum of ", "100", "MB">>),
          calls |-> <<>>]
    ELSE IF ~file_content.parses
    THEN [dfs |-> dfs, result |-> Err(<<"read_csv failed">>), calls |-> <<"read_csv">>]
    ELSE IF file_content.df.rows > max_dataframe_rows
    THEN [dfs |-> dfs,
          result |-> Err(<<"DataFrame exceeds maximum of ", "1000000", " rows">>),
          calls |-> <<"read_csv">>]
    ELSE [dfs |-> [dfs EXCEPT ![session_id] = file_content.df],
          result |-> Ok("dataset", file_content.df.rows), calls |-> <<"read_csv">>]

get_dataframe(dfs, session_id) == dfs[session_id]

clear_session_all(dfs, session_id) == [s \in DOMAIN dfs |-> None]

clear_session(dfs, session_id) == [dfs EXCEPT ![session_id] = None]

(***************************************************************************)
(* JSON values of a parameter dict, and the dict as its (key, value) pairs *)
(* in order.                                                               *)
(***************************************************************************)
JStr(s) == [t |-> "str", s |-> s, i |-> 0]
JInt(i) == [t |-> "int", s |-> "", i |-> i]
JNull == [t |-> "null", s |-> "", i |-> 0]      \* None

\* bool(v)
Truthy(v) == (v.t = "str" /\ v.s # "") \/ (v.t = "int" /\ v.i # 0)

Keys(params) == [i \in 1..Len(params) |-> params[i][1]]

\* params.get(key, default)
RECURSIVE Get(_, _, _)
Get(params, key, default) ==
    IF params = <<>> THEN default
    ELSE IF Head(params)[1] = key THEN Head(params)[2]
    ELSE Get(Tail(params), key, default)

Min(a, b) == IF a <= b THEN a ELSE b
Max(a, b) == IF a >= b THEN a ELSE b

(***************************************************************************)
(* data_processor.py: the analysis operations, on the store `dfs`.         *)
(***************************************************************************)
describe_data(dfs, session_id) ==
    LET df == get_dataframe(dfs, session_id) IN
    IF df = None THEN Err(<<"No dataset loaded">>)
    ELSE Ok("describe", df.rows)

correlation_matrix(dfs, session_id) ==
    LET df == get_dataframe(dfs, session_id) IN
    IF df = None THEN Err(<<"No dataset loaded">>)
    ELSE IF df.numeric = {} THEN Err(<<"No numeric columns found">>)
    ELSE Ok("correlation", Cardinality(df.numeric))

head_data_unguarded(dfs, session_id, n) ==
    LET df == get_dataframe(dfs, session_id) IN
    IF df = None THEN Fault("AttributeError")
    ELSE IF n.t # "int" THEN Fault("TypeError")
    ELSE Ok("head", IF n.i >= 0 THEN Min(n.i, df.rows) ELSE Max(df.rows + n.i, 0))

\* df.head(n) slices with n: a non-integer n raises TypeError in pandas.
head_data(dfs, session_id, n) ==
    LET df == get_dataframe(dfs, session_id) IN
    IF df = None THEN Err(<<"No dataset loaded">>)
    ELSE IF n.t # "int" THEN Fault("TypeError")
    ELSE Ok("head", IF n.i >= 0 THEN Min(n.i, df.rows) ELSE Max(df.rows + n.i, 0))

\* df.tail(n) negates n: a non-integer n raises TypeError.
tail_data(dfs, session_id, n) ==
    LET df == get_dataframe(dfs, session_id) IN
    IF df = None THEN Err(<<"No dataset loaded">>)
    ELSE IF n.t # "int" THEN Fault("TypeError")
    ELSE Ok("tail", IF n.i >= 0 THEN Min(n.i, df.rows) ELSE Max(df.rows + n.i, 0))

\* df.info(buf=BytesIO()) writes str to a bytes buffer: TypeError.
info_data(dfs, session_id) ==
    LET df == get_dataframe(dfs, session_id) IN
    IF df = None THEN Err(<<"No dataset loaded">>)
    ELSE Fault("TypeError")

\* df[v] / px.*(df, x=v): v names a column of df
IsColumn(df, v) == v.t = "str" /\ v.s \in Range(df.columns)

\* The tail of generate_plot once fig is built (lines 290-322).
PlotOutput(format_type) ==
    IF format_type = JStr("plotly") THEN Ok("plotly", 0) ELSE Ok("image", 0)

\* A plot of x against y (bar, line, scatter, box).
PlotXY(df, name, x, y, format_type) ==
    IF Truthy(x) /\ Truthy(y)
    THEN IF IsColumn(df, x) /\ IsColumn(df, y)
         THEN PlotOutput(format_type)
         ELSE Err(<<"KeyError">>)                  \* caught at line 324
    ELSE Err(<<name, " requires x and y parameters">>)

\* A plot of x alone (histogram, pie).
PlotX(df, name, x, format_type) ==
    IF Truthy(x)
    THEN IF IsColumn(df, x) THEN PlotOutput(format_type) ELSE Err(<<"KeyError">>)
    ELSE Err(<<name, " requires x parameter">>)

generate_plot_y_optional(dfs, session_id, plot_type, x, y, format_type) ==
    LET df == get_dataframe(dfs, session_id) IN
    IF df = None THEN Err(<<"No dataset loaded">>)
    ELSE IF plot_type \in {JStr("bar"), JStr("line"), JStr("scatter"), JStr("box")}
         THEN IF Truthy(x) /\ IsColumn(df, x) THEN PlotOutput(format_type)
              ELSE Err(<<"KeyError">>)
    ELSE IF plot_type = JStr("histogram") THEN PlotX(df, "Histogram", x, format_type)
    ELSE IF plot_type = JStr("pie") THEN PlotX(df, "Pie chart", x, format_type)
    ELSE IF plot_type = JStr("heatmap")
         THEN IF df.numeric = {} THEN Err(<<"No numeric columns for heatmap">>)
              ELSE PlotOutput(format_type)
    ELSE Err(<<"Unknown plot type: ", plot_type.s>>)

generate_plot(dfs, session_id, plot_type, x, y, format_type) ==
    LET df == get_dataframe(dfs, session_id) IN
    IF df = None THEN Err(<<"No dataset loaded">>)
    ELSE IF plot_type = JStr("bar") THEN PlotXY(df, "Bar plot", x, y, format_type)
    ELSE IF plot_type = JStr("line") THEN PlotXY(df, "Line plot", x, y, format_type)
    ELSE IF plot_type = JStr("scatter") THEN PlotXY(df, "Scatter plot", x, y, format_type)
    ELSE IF plot_type = JStr("histogram") THEN PlotX(df, "Histogram", x, format_type)
    ELSE IF plot_type = JStr("pie") THEN PlotX(df, "Pie chart", x, format_type)
    ELSE IF plot_type = JStr("heatmap")
         THEN IF df.numeric = {} THEN Err(<<"No numeric columns for heatmap">>)
              ELSE PlotOutput(format_type)
    ELSE IF plot_type = JStr("box") THEN PlotXY(df, "Box plot", x, y, format_type)
    ELSE Err(<<"Unknown plot type: ", plot_type.s>>)

(***************************************************************************)
(* main.py: the HTTP handlers.  A handler is an operator from the store    *)
(* and the request to [dfs: the store afterwards, resp: the response,      *)
(* calls: the functions it called, in order]; the action applies it.       *)
(* HTTPException(400, detail) is the response [status 400, detail]; an     *)
(* exception no handler catches leaves the endpoint as FastAPI's bare      *)
(* 500 response, which carries no message of the application.              *)
(***************************************************************************)
NoResp == [status |-> 0, detail |-> NoMsg, result |-> NoResult, session_id |-> 0]

Http400(detail) == [NoResp EXCEPT !.status = 400, !.detail = detail]
Http500 == [NoResp EXCEPT !.status = 500]
Http200(result) == [NoResp EXCEPT !.status = 200, !.result = result]

AnalysisOps ==
    {"describe_data", "correlation_matrix", "head_data", "tail_data", "info_data",
     "generate_plot"}

\* lines 195-202: the envelope of an analysis result
Envelope(result) ==
    IF result.kind = "fault" THEN Http500                \* raised inside the call
    ELSE IF result.kind = "error" THEN Http400(result.error)
    ELSE Http200(result)

\* lines 168-193: the if/elif chain.  [op: the operation invoked, result].
Dispatch(dfs, command, params, session_id) ==
    IF command = "describe"
    THEN [op |-> <<"describe_data">>, result |-> describe_data(dfs, session_id)]
    ELSE IF command = "corr"
    THEN [op |-> <<"correlation_matrix">>, result |-> correlation_matrix(dfs, session_id)]
    ELSE IF command = "head"
    THEN [op |-> <<"head_data">>,
          result |-> head_data(dfs, session_id, Get(params, "n", JInt(5)))]
    ELSE IF command = "tail"
    THEN [op |-> <<"tail_data">>,
          result |-> tail_data(dfs, session_id, Get(params, "n", JInt(5)))]
    ELSE IF command = "info"
    THEN [op |-> <<"info_data">>, result |-> info_data(dfs, session_id)]
    ELSE IF command = "plot"
    THEN [op |-> <<"generate_plot">>,
          result |-> generate_plot(dfs, session_id, Get(params, "type", JNull),
                                   Get(params, "x", JNull), Get(params, "y", JNull),
                                   Get(params, "format", JStr("plotly")))]
    ELSE [op |-> <<>>, result |-> Err(<<"Command '", command, "' not implemented">>)]

execute_command_pops(dfs, command, params, session_id) ==
    LET vl == validate_command_length(command.len)
        vc == validate_command(command.name, Keys(params))
        d == Dispatch(dfs, command.name, params, session_id) IN
    IF ~vl.ok
    THEN [dfs |-> dfs, resp |-> Http400(vl.error), calls |-> <<"validate_command_length">>]
    ELSE IF ~vc.ok
    THEN [dfs |-> dfs, resp |-> Http400(vc.error),
          calls |-> <<"validate_command_length", "validate_command">>]
    ELSE [dfs |-> [dfs EXCEPT ![session_id] = None], resp |-> Envelope(d.result),
          calls |-> <<"validate_command_length", "validate_command">> \o d.op]

execute_command(dfs, command, params, session_id) ==
    LET vl == validate_command_length(command.len)
        vc == validate_command(command.name, Keys(params))
        d == Dispatch(dfs, command.name, params, session_id) IN
    IF ~vl.ok
    THEN [dfs |-> dfs, resp |-> Http400(vl.error), calls |-> <<"validate_command_length">>]
    ELSE IF ~vc.ok
    THEN [dfs |-> dfs, resp |-> Http400(vc.error),
          calls |-> <<"validate_command_length", "validate_command">>]
    ELSE [dfs |-> dfs, resp |-> Envelope(d.result),
          calls |-> <<"validate_command_length", "validate_command">> \o d.op]

\* upload_dataset; session_id is the uuid4 the handler draws.
upload_dataset(dfs, filename, content, session_id) ==
    LET sf == sanitize_filename(filename)
        vs == validate_file_size(content.size)
        ld == load_csv(dfs, content, session_id) IN
    IF filename = <<>>
    THEN [dfs |-> dfs, resp |-> Http400(<<"No filename provided">>), calls |-> <<>>]
    ELSE IF ~sf.ok
    THEN [dfs |-> dfs, resp |-> Http400(<<sf.error>>), calls |-> <<"sanitize_filename">>]
    ELSE IF ~vs.ok
    THEN [dfs |-> dfs, resp |-> Http400(vs.error),
          calls |-> <<"sanitize_filename", "validate_file_size">>]
    ELSE IF ld.result.kind # "ok"
    THEN [dfs |-> ld.dfs, resp |-> Http400(ld.result.error),
          calls |-> <<"sanitize_filename", "validate_file_size", "load_csv">> \o ld.calls]
    ELSE [dfs |-> ld.dfs,
          resp |-> [Http200(ld.result) EXCEPT !.session_id = session_id],
          calls |-> <<"sanitize_filename", "validate_file_size", "load_csv">> \o ld.calls]

get_describe(dfs, session_id) ==
    [dfs |-> dfs, resp |-> Envelope(describe_data(dfs, session_id)),
     calls |-> <<"describe_data">>]

get_corr(dfs, session_id) ==
    [dfs |-> dfs, resp |-> Envelope(correlation_matrix(dfs, session_id)),
     calls |-> <<"correlation_matrix">>]

(***************************************************************************)
(* Requests.                                                               *)
(***************************************************************************)
NoContent == [size |-> 0, parses |-> FALSE, df |-> None]

NoReq(dfs) ==
    [endpoint |-> "none", command |-> [name |-> "", len |-> 0, bytes |-> 0], params |-> <<>>,
     session_id |-> 0, filename |-> <<>>, content |-> NoContent, before |-> dfs]

PlotTypes == {"bar", "line", "scatter", "histogram", "pie", "heatmap", "box"}

\* the values a key is sent with
ValuesOf(key) ==
    CASE key = "type" -> {JStr(t) : t \in PlotTypes \cup {"violin"}}
      [] key = "x" -> {JStr("a"), JStr("zz"), JStr("")}
      [] key = "y" -> {JStr("b"), JStr("")}
      [] key = "n" -> {JInt(2), JInt(5), JInt(0), JStr("abc")}
      [] key = "format" -> {JStr("plotly"), JStr("image")}
      [] OTHER -> {JStr("v")}

Entries(key) == {<<<<key, v>>>> : v \in ValuesOf(key)}

Optional(key) == {<<>>} \cup Entries(key)

\* the parameter dicts sent with a command
ParamsOf(command) ==
    {<<>>} \cup UNION {Entries(k) : k \in ParamKeys}
    \cup IF command = "plot"
         THEN {t \o x \o y \o f :
                  t \in Entries("type"), x \in Optional("x"), y \in Optional("y"),
                  f \in Optional("format")}
         ELSE {}

UploadNames == {<<>>, ReportCsv, PasswdCsv, NotesTxt, <<" ", "a", ".", "C", "S", "V">>}

(***************************************************************************)
(* The actions of Spec: one request at a time is served and answered.      *)
(***************************************************************************)
Idle == req.endpoint = "none"

Serve(request, out) ==
    /\ req' = request
    /\ dataframes' = out.dfs
    /\ resp' = out.resp
    /\ calls' = out.calls
    /\ UNCHANGED <<call, active_connections, ws, inbox, baseline>>

UploadDataset ==
    /\ Idle
    /\ \E filename \in UploadNames, content \in Contents, session_id \in SessionIds :
        /\ dataframes[session_id] = None       \* a fresh uuid4
        /\ Serve([NoReq(dataframes) EXCEPT !.endpoint = "upload", !.filename = filename,
                                           !.content = content],
                 upload_dataset(dataframes, filename, content, session_id))

ExecuteCommand ==
    /\ Idle
    /\ \E command \in Commands, session_id \in SessionIds :
        \E params \in ParamsOf(command.name) :
            Serve([NoReq(dataframes) EXCEPT !.endpoint = "execute", !.command = command,
                                            !.params = params, !.session_id = session_id],
                  execute_command(dataframes, command, params, session_id))

GetDescribe ==
    /\ Idle
    /\ \E session_id \in SessionIds :
        Serve([NoReq(dataframes) EXCEPT !.endpoint = "describe", !.session_id = session_id],
              get_describe(dataframes, session_id))

GetCorr ==
    /\ Idle
    /\ \E session_id \in SessionIds :
        Serve([NoReq(dataframes) EXCEPT !.endpoint = "corr", !.session_id = session_id],
              get_corr(dataframes, session_id))

\* data_processor.load_csv called on a session id of the caller's choice
LoadCsv ==
    /\ Idle
    /\ \E content \in Contents, session_id \in SessionIds :
        LET ld == load_csv(dataframes, content, session_id) IN
        Serve([NoReq(dataframes) EXCEPT !.endpoint = "load_csv", !.content = content,
                                        !.session_id = session_id],
              [dfs |-> ld.dfs, resp |-> [NoResp EXCEPT !.result = ld.result],
               calls |-> <<"load_csv">> \o ld.calls])

\* data_processor.clear_session
ClearSession ==
    /\ Idle
    /\ \E session_id \in SessionIds :
        Serve([NoReq(dataframes) EXCEPT !.endpoint = "clear_session",
                                        !.session_id = session_id],
              [dfs |-> clear_session(dataframes, session_id), resp |-> NoResp,
               calls |-> <<"clear_session">>])

\* the response is on the wire; the server is ready for the next request
Respond ==
    /\ ~Idle
    /\ req' = NoReq(dataframes)
    /\ resp' = NoResp
    /\ calls' = <<>>
    /\ UNCHANGED <<call, dataframes, active_connections, ws, inbox, baseline>>

(***************************************************************************)
(* main.py: the WebSocket endpoint and its ConnectionManager.              *)
(*                                                                         *)
(* A handler runs between two awaits without interruption, so an action is *)
(* the code from one await to the next.  send_message looks the socket up  *)
(* under the session id and starts the send in the same stretch of code:   *)
(* the lookup and the delivery are one step.  Sending on a socket whose    *)
(* client has left, or whose handler has ended, is decided by the ASGI     *)
(* server: the message is lost, and the send returns, raises               *)
(* WebSocketDisconnect or raises another exception.                        *)
(***************************************************************************)
MaxConns == 2       \* WebSocket connections opened
MaxMsgs == 1        \* messages a client sends on one connection

Conns == 1..MaxConns

NoSocket == 0       \* the session id is not a key of active_connections

Running == {"receive", "execute"}

\* The request id of the k-th message of connection c: the clients choose
\* ids that differ from one another.
RequestId(c, k) == [conn |-> c, seq |-> k]
NoRequestId == RequestId(0, 0)

NewConn ==
    [pc |-> "new", session_id |-> 0, open |-> FALSE, received |-> 0,
     command |-> "", params |-> <<>>, is_dict |-> TRUE, request_id |-> NoRequestId,
     completed |-> {}]

\* ConnectionManager.disconnect(session_id)
disconnect(conns, session_id) == [conns EXCEPT ![session_id] = NoSocket]

\* the peer of socket d still reads what is sent on it
Live(d) == ws[d].open /\ ws[d].pc \in Running

SendOutcomes(target) ==
    IF target = NoSocket \/ Live(target) THEN {"sent"}
    ELSE {"sent", "disconnect", "error"}

\* ConnectionManager.send_message(session_id, message): the inboxes afterwards.
send_message(conns, boxes, session_id, message) ==
    LET target == conns[session_id] IN
    IF target # NoSocket /\ Live(target)
    THEN [boxes EXCEPT ![target] = Append(@, message)]
    ELSE boxes

Message(type, request_id, kind) ==
    [type |-> type, request_id |-> request_id, kind |-> kind]


\* the handler of connection c leaves its loop on exception `outcome`
Leave(c, outcome, conns) ==
    IF outcome = "disconnect"
    THEN /\ active_connections' = disconnect(conns, ws[c].session_id)
         /\ ws' = [ws EXCEPT ![c].pc = "done"]
    ELSE /\ active_connections' = conns
         /\ ws' = [ws EXCEPT ![c].pc = "crashed"]

WsFrame == UNCHANGED <<call, dataframes, req, resp, calls, baseline>>

\* a client opens the socket; websocket_endpoint awaits websocket.accept()
WsOpen ==
    \E c \in Conns, session_id \in SessionIds :
        /\ ws[c].pc = "new"
        /\ ws' = [ws EXCEPT ![c].pc = "accept", ![c].session_id = session_id,
                            ![c].open = TRUE]
        /\ UNCHANGED <<active_connections, inbox>>
        /\ WsFrame

\* ConnectionManager.connect after the accept
WsConnect ==
    \E c \in Conns :
        /\ ws[c].pc = "accept"
        /\ active_connections' = [active_connections EXCEPT ![ws[c].session_id] = c]
        /\ ws' = [ws EXCEPT ![c].pc = "receive"]
        /\ UNCHANGED inbox
        /\ WsFrame

\* the client goes away; its handler learns of it at its next receive
WsClientClose ==
    \E c \in Conns :
        /\ ws[c].pc \in Running /\ ws[c].open
        /\ ws' = [ws EXCEPT ![c].open = FALSE]
        /\ UNCHANGED <<active_connections, inbox>>
        /\ WsFrame

\* receive_text raises WebSocketDisconnect
WsDisconnect ==
    \E c \in Conns :
        /\ ws[c].pc = "receive" /\ ~ws[c].open
        /\ Leave(c, "disconnect", active_connections)
        /\ UNCHANGED inbox
        /\ WsFrame

\* {"type": "PING"}: the PONG is sent
WsPing ==
    \E c \in Conns :
        /\ ws[c].pc = "receive" /\ ws[c].open /\ ws[c].received < MaxMsgs
        /\ inbox' = send_message(active_connections, inbox, ws[c].session_id,
                                 Message("PONG", NoRequestId, ""))
        /\ \E outcome \in SendOutcomes(active_connections[ws[c].session_id]) :
              IF outcome = "sent"
              THEN /\ ws' = [ws EXCEPT ![c].received = @ + 1]
                   /\ UNCHANGED active_connections
              ELSE Leave(c, outcome, active_connections)
        /\ WsFrame

WsCommands == {"plot", "describe"}

WsParams == {<<>>, <<<<"type", JStr("heatmap")>>, <<"bogus", JStr("v")>>>>}

\* {"type": "COMMAND", ...}: the locals are set and the PROGRESS is sent.
\* is_dict: "params" is a JSON object (anything else has no .get).
WsCommand ==
    \E c \in Conns, command \in WsCommands, params \in WsParams, is_dict \in BOOLEAN :
        /\ ws[c].pc = "receive" /\ ws[c].open /\ ws[c].received < MaxMsgs
        /\ is_dict \/ params = <<>>
        /\ command = "plot" \/ (is_dict /\ params = <<>>)
        /\ inbox' = send_message(active_connections, inbox, ws[c].session_id,
                                 Message("PROGRESS", RequestId(c, ws[c].received + 1), ""))
        /\ \E outcome \in SendOutcomes(active_connections[ws[c].session_id]) :
              IF outcome = "sent"
              THEN /\ ws' = [ws EXCEPT ![c].pc = "execute", ![c].received = @ + 1,
                                       ![c].command = command, ![c].params = params,
                                       ![c].is_dict = is_dict,
                                       ![c].request_id = RequestId(c, ws[c].received + 1)]
                   /\ UNCHANGED active_connections
              ELSE Leave(c, outcome, active_connections)
        /\ WsFrame

\* lines 263-287: the command is executed and the RESULT sent, or the ERROR
\* when the try block raised
WsExecute ==
    \E c \in Conns :
        LET w == ws[c]
            raises == w.command = "plot" /\ ~w.is_dict        \* params.get
            result ==
                IF w.command = "plot"
                THEN generate_plot(dataframes, w.session_id, Get(w.params, "type", JNull),
                                   Get(w.params, "x", JNull), Get(w.params, "y", JNull),
                                   JStr("plotly"))
                ELSE Err(<<"Command ", w.command, " not supported via WebSocket">>)
            target == active_connections[w.session_id]
            first == IF raises THEN Message("ERROR", w.request_id, "AttributeError")
                     ELSE Message("RESULT", w.request_id, result.kind)
            back == [ws EXCEPT ![c] = [NewConn EXCEPT
                        !.pc = "receive", !.session_id = w.session_id, !.open = w.open,
                        !.received = w.received,
                        !.completed = w.completed \cup {w.request_id}]]
        IN  /\ w.pc = "execute"
            /\ \E outcome \in SendOutcomes(target) :
                  IF outcome = "sent"
                  THEN /\ inbox' = send_message(active_connections, inbox, w.session_id, first)
                       /\ ws' = back
                       /\ UNCHANGED active_connections
                  ELSE IF raises
                  THEN /\ inbox' = inbox
                       /\ Leave(c, outcome, active_connections)
                  ELSE \* the RESULT's exception is caught and the ERROR sent
                       \E second \in SendOutcomes(target) :
                          /\ inbox' = inbox
                          /\ IF second = "sent"
                             THEN ws' = back /\ UNCHANGED active_connections
                             ELSE Leave(c, second, active_connections)
            /\ WsFrame

\* a message of another type is ignored
WsOther ==
    \E c \in Conns :
        /\ ws[c].pc = "receive" /\ ws[c].open /\ ws[c].received < MaxMsgs
        /\ ws' = [ws EXCEPT ![c].received = @ + 1]
        /\ UNCHANGED <<active_connections, inbox>>
        /\ WsFrame

\* text that is no JSON object: json.loads or message.get raises, and nothing
\* catches it
WsMalformed ==
    \E c \in Conns :
        /\ ws[c].pc = "receive" /\ ws[c].open /\ ws[c].received < MaxMsgs
        /\ Leave(c, "error", active_connections)
        /\ UNCHANGED inbox
        /\ WsFrame

(***************************************************************************)
(* baseline/python_server.py: the single-threaded TCP server.  main        *)
(* accepts one connection at a time and hands it to handle_client, which   *)
(* reads one command with one recv, answers it and closes the connection.  *)
(* The bytes a peer delivers are a sequence of one-character strings, as   *)
(* the code strips, lowers and matches them.  Python's True, False and     *)
(* None are the strings "True", "False" and "None".                        *)
(***************************************************************************)
MaxAccepts == 3     \* connections the server accepts

InvalidByte == "0xFF"       \* a byte that no UTF-8 text contains

Exit == <<"e", "x", "i", "t">>
Quit == <<"q", "u", "i", "t">>
DotCsv == <<".", "c", "s", "v">>
Chart == <<"c", "h", "a", "r", "t">>
ExitCall == <<"e", "x", "i", "t", "(", ")">>
OnePlusOne == <<"1", "+", "1">>
DfName == <<"d", "f">>

\* what recv returns for a connection: the bytes the peer delivered (none: the
\* peer closed without sending), or ConnectionResetError
BaselineData ==
    {<<>>, Exit, <<"Q", "U", "I", "T">>, <<" ", "E", "x", "i", "t", "\n">>,
     <<"e", "x", "i", "t", "s">>, ExitCall,
     <<"a">> \o DotCsv, <<"b">> \o DotCsv, <<"x">> \o DotCsv, <<"a", ".", "C", "S", "V">>,
     Chart, <<"C", "h", "a", "r", "t">>, OnePlusOne, DfName, <<"\n">>, <<InvalidByte>>}

Peers ==
    {[data |-> d, reset |-> FALSE] : d \in BaselineData}
        \cup {[data |-> <<>>, reset |-> TRUE]}

NoPeer == [data |-> <<>>, reset |-> FALSE]

\* the files of the server's working directory: os.path.exists, and those
\* pd.read_csv parses
ExistingFiles == {<<"a">> \o DotCsv, <<"x">> \o DotCsv}
ParsableFiles == {<<"a">> \o DotCsv}

\* data.decode('utf-8') does not raise
Decodable(data) == InvalidByte \notin Range(data)

Reply(text, about) == [text |-> text, about |-> about]

process_csv_command(df, filename) ==
    IF filename \notin ExistingFiles
    THEN [df |-> df, response |-> Reply("Error: File not found", filename)]
    ELSE IF filename \in ParsableFiles
    THEN [df |-> Mixed(3), response |-> Reply("CSV loaded successfully", filename)]
    ELSE [df |-> df, response |-> Reply("Error loading CSV", filename)]

process_chart_command(df) ==
    IF df = None
    THEN [img_data |-> "None", error |-> "Error: No dataset loaded"]
    ELSE [img_data |-> "plot.jpg", error |-> "None"]

\* exec(code, {...}) and the eval that follows when nothing was printed, for
\* the programs of BaselineData: exit() raises SystemExit, which is no
\* Exception; the empty program does nothing; a name that is not bound raises
\* NameError, which line 96 catches.
capture_exec_output(df, code) ==
    CASE code = ExitCall -> [output |-> "None", raised |-> "SystemExit"]
      [] code = <<>> -> [output |-> "Command executed successfully", raised |-> "None"]
      [] code = OnePlusOne -> [output |-> "2", raised |-> "None"]
      [] code = DfName ->
            [output |-> IF df = None THEN "Command executed successfully" ELSE "str(df)",
             raised |-> "None"]
      [] OTHER -> [output |-> "Error: NameError", raised |-> "None"]

Returned(df, sent, value) ==
    [df |-> df, sent |-> sent, returns |-> value, raised |-> "None"]

\* handle_client(conn, addr): the global df afterwards, what was sent on conn,
\* and the value returned or the exception that left the function.  conn is
\* closed on every path.
handle_client(df, peer) ==
    IF peer.reset THEN Returned(df, <<>>, "True")                    \* lines 147-158
    ELSE IF peer.data = <<>> THEN Returned(df, <<>>, "None")          \* lines 110-111
    ELSE IF ~Decodable(peer.data)
    THEN Returned(df, <<Reply("Server error", peer.data)>>, "True")
    ELSE
        LET code == Strip(peer.data) IN
        IF Lower(code) \in {Exit, Quit}
        THEN Returned(df, <<Reply("Server shutting down", code)>>, "False")
        ELSE IF EndsWith(code, DotCsv)
        THEN LET r == process_csv_command(df, code)
             IN  Returned(r.df, <<r.response>>, "True")
        ELSE IF code = Chart
        THEN LET r == process_chart_command(df)
             IN  IF r.error # "None" THEN Returned(df, <<Reply(r.error, code)>>, "True")
                 ELSE Returned(df, <<Reply("size", code), Reply(r.img_data, code)>>, "True")
        ELSE LET r == capture_exec_output(df, code)
             IN  IF r.raised # "None"
                 THEN [df |-> df, sent |-> <<>>, returns |-> "None", raised |-> r.raised]
                 ELSE Returned(df, <<Reply(r.output, code)>>, "True")

\* not v
Falsy(v) == v \in {"False", "None"}

NoBaseline ==
    [df |-> None, pc |-> "accept", conn |-> NoPeer, sent |-> <<>>,
     should_continue |-> "None", accepted |-> 0]

BaselineFrame ==
    UNCHANGED <<call, dataframes, req, resp, calls, active_connections, ws, inbox>>

\* main, line 174: s.accept() returns the next connection
Accept ==
    \E peer \in Peers :
        /\ baseline.pc = "accept" /\ baseline.accepted < MaxAccepts
        /\ baseline' = [baseline EXCEPT !.pc = "handle_client", !.conn = peer,
                                        !.sent = <<>>, !.accepted = @ + 1]
        /\ BaselineFrame

\* main, line 175: should_continue = handle_client(conn, addr); an exception
\* that neither KeyboardInterrupt nor Exception covers ends main through its
\* finally, which closes the listening socket
HandleClient ==
    LET r == handle_client(baseline.df, baseline.conn) IN
    /\ baseline.pc = "handle_client"
    /\ baseline' = [baseline EXCEPT !.df = r.df, !.sent = r.sent,
                                    !.should_continue = r.returns,
                                    !.pc = IF r.raised # "None" THEN "closed" ELSE "test"]
    /\ BaselineFrame

\* main, lines 176-177 and 183-184: break, and the listening socket is closed
Break ==
    /\ baseline.pc = "test" /\ Falsy(baseline.should_continue)
    /\ baseline' = [baseline EXCEPT !.pc = "closed"]
    /\ BaselineFrame

\* main, line 173: the loop goes round
Continue ==
    /\ baseline.pc = "test" /\ ~Falsy(baseline.should_continue)
    /\ baseline' = [baseline EXCEPT !.pc = "accept"]
    /\ BaselineFrame

NoConns == [s \in SessionIds |-> NoSocket]
NoWs == [c \in Conns |-> NewConn]
NoInbox == [c \in Conns |-> <<>>]

Init ==
    /\ call = NoCall
    /\ dataframes = [s \in SessionIds |-> None]
    /\ req = NoReq(dataframes)
    /\ resp = NoResp
    /\ calls = <<>>
    /\ active_connections = NoConns
    /\ ws = NoWs
    /\ inbox = NoInbox
    /\ baseline = NoBaseline

Next ==
    \/ UploadDataset
    \/ ExecuteCommand
    \/ GetDescribe
    \/ GetCorr
    \/ LoadCsv
    \/ ClearSession
    \/ Respond

Spec == Init /\ [][Next]_vars

InitValidate ==
    /\ call \in CallInputs
    /\ dataframes = [s \in SessionIds |-> None]
    /\ req = NoReq(dataframes)
    /\ resp = NoResp
    /\ calls = <<>>
    /\ active_connections = NoConns
    /\ ws = NoWs
    /\ inbox = NoInbox
    /\ baseline = NoBaseline

NextValidate ==
    \/ CallValidateCommand
    \/ CallSanitizeFilename
    \/ CallValidateFileSize
    \/ CallValidateCommandLength

SpecValidate == InitValidate /\ [][NextValidate]_vars

\* SpecWs: the WebSocket endpoint over a store that holds a dataset for every
\* session id or for none.
InitWs ==
    /\ call = NoCall
    /\ dataframes \in {[s \in SessionIds |-> None], [s \in SessionIds |-> Mixed(3)]}
    /\ req = NoReq(dataframes)
    /\ resp = NoResp
    /\ calls = <<>>
    /\ active_connections = NoConns
    /\ ws = NoWs
    /\ inbox = NoInbox
    /\ baseline = NoBaseline

NextWs ==
    \/ WsOpen
    \/ WsConnect
    \/ WsClientClose
    \/ WsDisconnect
    \/ WsPing
    \/ WsCommand
    \/ WsExecute
    \/ WsOther
    \/ WsMalformed

SpecWs == InitWs /\ [][NextWs]_vars

\* SpecBaseline: the baseline server from the moment it listens.
NextBaseline ==
    \/ Accept
    \/ HandleClient
    \/ Break
    \/ Continue

SpecBaseline == Init /\ [][NextBaseline]_vars

(***************************************************************************)
(* Properties of the validators (SpecValidate).                            *)
(***************************************************************************)
Declared(command, key) ==
    command \in DOMAIN ALLOWED_COMMANDS /\ key \in Range(ALLOWED_COMMANDS[command])

\* C1: validate_command accepts (True, None) exactly when the command is in
\* ALLOWED_COMMANDS and every key of params is declared for it; a pair with an
\* undeclared key is rejected (fail closed).
C1_FailClosed ==
    (call.fn = "validate_command" /\ call.done) =>
        /\ call.vc.ok <=>
              /\ call.command \in DOMAIN ALLOWED_COMMANDS
              /\ \A k \in Range(call.keys) : Declared(call.command, k)
        /\ call.vc.ok => call.vc.error = NoMsg
        /\ ~call.vc.ok => call.vc.error # NoMsg

C1_Witness ==
    /\ call.fn = "validate_command" /\ call.done
    /\ call.command = "head" /\ call.keys = <<"n", "x">>
    /\ ~call.vc.ok

SeparatorFirst(f) == Len(f) > 0 /\ f[1] \in {"/", "\\"}

\* what C3 lists as grounds for rejection
Unsafe(f) ==
    \/ Contains(f, <<".", ".">>)
    \/ "/" \in Range(f) \/ "\\" \in Range(f)
    \/ SeparatorFirst(f)
    \/ (Len(f) >= 2 /\ f[2] = ":")
    \/ Range(f) \cap dangerous_chars # {}
    \/ ~EndsWith(Lower(f), <<".", "c", "s", "v">>)

\* C3: sanitize_filename rejects every filename with a '..' segment, a path
\* separator, a leading separator or drive-letter prefix, a shell-meta
\* character, or an ending other than .csv (any case); '../etc/passwd.csv',
\* 'a;rm -rf.csv' and 'notes.txt' are rejected and 'report.csv' is accepted.
C3_UnsafeRejected ==
    (call.fn = "sanitize_filename" /\ call.done) =>
        /\ Unsafe(call.filename) => ~call.sf.ok
        /\ call.filename \in {PasswdCsv, RmRfCsv, NotesTxt} => ~call.sf.ok
        /\ call.filename = ReportCsv => call.sf.ok

C3_Witness ==
    /\ call.fn = "sanitize_filename" /\ call.done
    /\ call.filename = <<"a", ";", "$", ".", "t", "x", "t">>
    /\ ~call.sf.ok

\* C4: an accepted filename is returned with leading and trailing whitespace
\* stripped: the result equals the stripped input and neither begins nor ends
\* with whitespace.
C4_ReturnedStripped ==
    (call.fn = "sanitize_filename" /\ call.done /\ call.sf.ok) =>
        /\ call.sf.filename = Strip(call.filename)
        /\ Head(call.sf.filename) \notin Whitespace
        /\ call.sf.filename[Len(call.sf.filename)] \notin Whitespace

(***************************************************************************)
(* Properties of the HTTP handlers (Spec).                                 *)
(***************************************************************************)
Invoked == {i \in 1..Len(calls) : calls[i] \in AnalysisOps}

\* the request passed validate_command_length and validate_command
Validated ==
    /\ req.endpoint = "execute"
    /\ req.command.len <= 10 * 1024
    /\ req.command.name \in DOMAIN ALLOWED_COMMANDS
    /\ \A k \in Range(Keys(req.params)) : Declared(req.command.name, k)

\* C2: a command name outside the schema is rejected whatever the parameters,
\* the rejection names the command, and on the execute endpoint no analysis
\* operation is invoked for it.
C2_UnknownCommandRejected ==
    (req.endpoint = "execute" /\ req.command.name \notin DOMAIN ALLOWED_COMMANDS) =>
        /\ resp.status = 400
        /\ Invoked = {}
        /\ req.command.len <= 10 * 1024 =>
              /\ calls = <<"validate_command_length", "validate_command">>
              /\ req.command.name \in Range(resp.detail)

C2_Witness ==
    /\ req.endpoint = "execute" /\ req.command.name = "exec"
    /\ req.params = <<<<"n", JInt(5)>>>>
    /\ resp.status = 400 /\ "exec" \in Range(resp.detail)

\* C5: content above the file-size ceiling is rejected with an error before
\* it is parsed as CSV, and the store is left as it was.
C5_OversizeRejectedUnparsed ==
    (req.endpoint \in {"upload", "load_csv"} /\ req.content.size > 100 * 1024 * 1024) =>
        /\ "read_csv" \notin Range(calls)
        /\ dataframes = req.before
        /\ req.endpoint = "upload" => resp.status = 400 /\ resp.detail # NoMsg
        /\ req.endpoint = "load_csv" => resp.result.kind = "error"

C5_Witness ==
    /\ req.endpoint = "upload" /\ req.filename = ReportCsv
    /\ req.content = [size |-> 100 * 1024 * 1024 + 1, parses |-> TRUE, df |-> Mixed(3)]
    /\ resp.status = 400
    /\ resp.detail = <<"File size exceeds maximum of ", "100", "MB">>

\* C6: describe, corr, head, tail and info on a session without a dataset answer
\* the error 'No dataset loaded', through the execute endpoint and the two
\* GET endpoints alike, and raise no fault.
C6_NoDatasetLoaded ==
    (/\ \/ Validated /\ req.command.name \in {"describe", "corr", "head", "tail", "info"}
        \/ req.endpoint \in {"describe", "corr"}
     /\ req.before[req.session_id] = None) =>
        /\ resp.status = 400
        /\ resp.detail = <<"No dataset loaded">>
        /\ Cardinality(Invoked) = 1

C6_Witness ==
    /\ Validated /\ req.command.name = "head"
    /\ req.params = <<<<"n", JStr("abc")>>>>
    /\ req.before[req.session_id] = None
    /\ resp.status = 400 /\ resp.detail = <<"No dataset loaded">>

NeedsXY == {JStr("bar"), JStr("line"), JStr("scatter"), JStr("box")}
NeedsX == {JStr("histogram"), JStr("pie")}

\* C7: with a dataset loaded, a plot request lacking a required field gets the
\* missing-parameter error and no fault: bar, line, scatter and box need x and
\* y, histogram and pie need x only, heatmap needs neither and ignores both.
C7_PlotRequiredFields ==
    (Validated /\ req.command.name = "plot" /\ req.before[req.session_id] # None) =>
        LET type == Get(req.params, "type", JNull)
            x == Get(req.params, "x", JNull)
            y == Get(req.params, "y", JNull)
            df == req.before[req.session_id]
            last == IF resp.detail = NoMsg THEN "" ELSE resp.detail[Len(resp.detail)]
        IN  /\ resp.status \in {200, 400}
            /\ type \in NeedsXY =>
                  (~(Truthy(x) /\ Truthy(y)) <=>
                      resp.status = 400 /\ last = " requires x and y parameters")
            /\ type \in NeedsX =>
                  (~Truthy(x) <=> resp.status = 400 /\ last = " requires x parameter")
            /\ type = JStr("heatmap") =>
                  IF df.numeric = {}
                  THEN resp.status = 400 /\ resp.detail = <<"No numeric columns for heatmap">>
                  ELSE resp.status = 200
            /\ type = JStr("bar") /\ Truthy(x) /\ ~Truthy(y) =>
                  resp.detail = <<"Bar plot", " requires x and y parameters">>

C7_Witness ==
    /\ Validated /\ req.command.name = "plot"
    /\ req.before[req.session_id] = Mixed(3)
    /\ req.params = <<<<"type", JStr("bar")>>, <<"x", JStr("a")>>>>
    /\ resp.status = 400
    /\ resp.detail = <<"Bar plot", " requires x and y parameters">>

\* C9: an execute request that validation accepts invokes exactly one analysis
\* operation and is never answered as unknown or not implemented.
C9_AcceptedIsDispatched ==
    Validated =>
        /\ Cardinality(Invoked) = 1
        /\ "' not implemented" \notin Range(resp.detail)

\* C10: a fault raised inside the analysis call of a dispatched command never
\* escapes: the caller gets the result or an error envelope with a message.
C10_FaultsCaught ==
    (Validated /\ Invoked # {}) =>
        \/ resp.status = 200
        \/ resp.status = 400 /\ resp.detail # NoMsg

(***************************************************************************)
(* Properties of the WebSocket endpoint (SpecWs).                          *)
(***************************************************************************)
Positions(box, types, request_id) ==
    {i \in 1..Len(box) : box[i].type \in types /\ box[i].request_id = request_id}

\* C8: a COMMAND with request id r yields exactly one PROGRESS and then exactly
\* one RESULT or ERROR, both with id r, delivered to the client that sent it,
\* whatever other connections do (read for a client that stays connected, once
\* its handler is through with the command).
C8_ProgressThenResult ==
    \A c \in Conns :
        ws[c].open =>
            \A r \in ws[c].completed :
                LET progress == Positions(inbox[c], {"PROGRESS"}, r)
                    final == Positions(inbox[c], {"RESULT", "ERROR"}, r)
                IN  /\ Cardinality(progress) = 1
                    /\ Cardinality(final) = 1
                    /\ \A i \in progress, j \in final : i < j

(***************************************************************************)
(* Properties of the session store (Spec).                                 *)
(***************************************************************************)
\* C11: an analysis operation, successful or not, leaves the store as it was:
\* the same session ids bound to the same datasets.
C11_AnalysisReadsOnly ==
    (req.endpoint \in {"execute", "describe", "corr"}) =>
        \A s \in SessionIds : get_dataframe(dataframes, s) = req.before[s]

C11_Witness ==
    /\ Validated /\ req.command.name = "plot"
    /\ req.params = <<<<"type", JStr("heatmap")>>>>
    /\ req.before[req.session_id] = Mixed(3)
    /\ resp.status = 200 /\ resp.result.payload = "plotly"
    /\ dataframes = req.before

\* the session id a load wrote to, when it was successful
Loaded ==
    IF req.endpoint = "load_csv" /\ resp.result.kind = "ok" THEN {req.session_id}
    ELSE IF req.endpoint = "upload" /\ resp.status = 200 THEN {resp.session_id}
    ELSE {}

\* C12: get_dataframe(s) is the dataset of the latest successful load_csv for s
\* that no clear_session(s) followed, and absent otherwise: a successful load
\* binds its id to the new dataset (replacing the old one), a failed load binds
\* nothing, a clear unbinds its id, and no other id is touched.
C12_StoreTracksLoads ==
    /\ req.endpoint \in {"load_csv", "upload"} =>
          \A s \in SessionIds :
              get_dataframe(dataframes, s) =
                  IF s \in Loaded THEN req.content.df ELSE req.before[s]
    /\ req.endpoint = "clear_session" =>
          \A s \in SessionIds :
              get_dataframe(dataframes, s) =
                  IF s = req.session_id THEN None ELSE req.before[s]

C12_Witness ==
    /\ req.endpoint = "load_csv" /\ resp.result.kind = "ok"
    /\ req.before[req.session_id] = Mixed(3)
    /\ req.content.df = Text(3)
    /\ get_dataframe(dataframes, req.session_id) = Text(3)
    /\ \E s \in SessionIds : s # req.session_id /\ dataframes[s] = Mixed(3)

(***************************************************************************)
(* Properties of the plot command's output format (Spec).                  *)
(***************************************************************************)
\* an execute request for plot that carries "format" and otherwise only keys
\* the whitelist declares
PlotWithFormat ==
    /\ req.endpoint = "execute" /\ req.command.name = "plot"
    /\ "format" \in Range(Keys(req.params))
    /\ \A k \in Range(Keys(req.params)) \ {"format"} : Declared("plot", k)

\* C13: a plot request may carry the output format: validation accepts it, and
\* the result is the chart specification for format "plotly" and the encoded
\* image for format "image".
C13_FormatSelectsOutput ==
    PlotWithFormat =>
        /\ calls = <<"validate_command_length", "validate_command", "generate_plot">>
        /\ resp.status = 200 =>
              resp.result.payload =
                  IF Get(req.params, "format", JNull) = JStr("plotly") THEN "plotly"
                  ELSE "image"

(***************************************************************************)
(* Properties of the policy ceilings (Spec).                               *)
(***************************************************************************)
\* C14: each ceiling rejects exactly the values above it: a command string iff
\* its byte length exceeds 10240, an uploaded file iff its byte size exceeds
\* 100 * 1024 * 1024, a parsed dataset iff it has more than 1000000 rows, and
\* then it is not stored.
C14_CeilingsExact ==
    /\ req.endpoint = "execute" =>
          (req.command.bytes > 10240 <=>
              resp.status = 400 /\ calls = <<"validate_command_length">>)
    /\ (req.endpoint = "upload" /\ Len(calls) >= 2) =>
          (req.content.size > 100 * 1024 * 1024 <=>
              resp.status = 400 /\ calls = <<"sanitize_filename", "validate_file_size">>)
    /\ (req.endpoint = "load_csv" /\ "read_csv" \in Range(calls) /\ req.content.parses) =>
          /\ req.content.df.rows > 1000000 <=> resp.result.kind = "error"
          /\ req.content.df.rows > 1000000 => dataframes = req.before
          /\ req.content.df.rows <= 1000000 =>
                get_dataframe(dataframes, req.session_id) = req.content.df

(***************************************************************************)
(* Properties of the WebSocket registry and transport (SpecWs).            *)
(***************************************************************************)
\* C15: a disconnect removes the registry entry of the connection that
\* disconnects and no other, and after every step each connection whose receive
\* loop is running is registered under its session id, so that messages for it
\* reach it.
C15_RunningStaysRegistered ==
    [][/\ \A c \in Conns :
            (ws[c].pc \in Running /\ ws'[c].pc = "done") =>
                \A s \in SessionIds :
                    active_connections'[s] =
                        IF active_connections[s] = c THEN NoSocket
                        ELSE active_connections[s]
       /\ \A c \in Conns :
            ws'[c].pc \in Running => active_connections'[ws'[c].session_id] = c]_vars

\* C16: on the WebSocket transport an analysis operation is invoked for a
\* COMMAND only if validate_command accepts its (command, params).
C16_WsValidatedBeforeAnalysis ==
    [][\A c \in Conns :
          (/\ ws[c].pc = "execute" /\ ws'[c].pc # "execute"
           /\ ws[c].command = "plot" /\ ws[c].is_dict) =>
              validate_command(ws[c].command, Keys(ws[c].params)).ok]_vars

(***************************************************************************)
(* Properties of the baseline server (SpecBaseline).                       *)
(***************************************************************************)
\* the connection main accepted last delivered exit or quit, in any case and
\* with whitespace around it
DeliveredExit ==
    /\ ~baseline.conn.reset /\ Decodable(baseline.conn.data)
    /\ Lower(Strip(baseline.conn.data)) \in {Exit, Quit}

\* C17: the server stops accepting exactly when a connection delivered exit or
\* quit: it is closed only after such a connection, and after a connection
\* that delivered anything else, or nothing, it is back in accept.
C17_StopsExactlyOnExit ==
    /\ baseline.pc = "closed" => DeliveredExit
    /\ (baseline.pc = "accept" /\ baseline.accepted > 0) => ~DeliveredExit

====
